---- MODULE Spec2Model ----
(***************************************************************************)
(* A model of the simplelog QSO logger: the ADIF log file writer           *)
(* (src/src/LogFile.py), the text entry validators (src/src/validators.py) *)
(* and the text entry widget that gates keystrokes with them               *)
(* (src/src/WidgetTextEntry.py, src/src/WidgetQsoEntry.py).                *)
(*                                                                         *)
(* Text is modelled by TLA+ strings; the i-th character of s is            *)
(* SubSeq(s, i, i).                                                        *)
(***************************************************************************)
EXTENDS Integers, Sequences, FiniteSets, TLC

VARIABLES
    fs,        \* the file system: path -> [exists, data]
    lf,        \* the LogFile object: [made, filename], and what its constructor did
    last,      \* the last LogFile call and what it did
    okRecs,    \* path -> the records of the append calls that returned True
    nCalls,    \* number of append calls made so far
    vArgs,     \* validator harness: the edit (why, where, what, all) under test
    vOut,      \* validator harness: the verdict of every validator on vArgs
    wField,    \* the text entry widget under edit: its field configuration
    wValue,    \* the widget's text (the StringVar _value)
    lastEdit,  \* the last edit attempted on the widget and its verdict
    shown,     \* an error has been shown to the user by the widget
    widgets,   \* the QSO entry form: its widgets [key, field, value] in dict order
    qso,       \* the last log action: the widgets it read and the record it built
    nEdits,    \* number of edits made on the form so far
    config,    \* the USER_FIELDS section of the configuration store
    form,      \* how the construction of the form ended: "none", "ok" or an error
    pc,        \* the users of one log file: where each is in its append call
    fmt        \* formatter harness: a field name, a value, its formatted values

vars == <<fs, lf, last, okRecs, nCalls, vArgs, vOut, wField, wValue, lastEdit, shown,
          widgets, qso, nEdits, config, form, pc, fmt>>
logVars == <<fs, lf, last, okRecs, nCalls>>
valVars == <<vArgs, vOut>>
keyVars == <<wField, wValue, lastEdit, shown>>
qsoVars == <<widgets, qso, nEdits, config, form>>
raceVars == <<pc>>
fmtVars == <<fmt>>

(***************************************************************************)
(* Bounds of the model.                                                    *)
(***************************************************************************)
MaxCalls == 2       \* append calls in one run
MaxPartial == 1     \* characters a failing write can leave behind

(***************************************************************************)
(* Text helpers.                                                           *)
(***************************************************************************)
Ch(s, i) == SubSeq(s, i, i)

Prefix(s, k) == SubSeq(s, 1, k)

IsPrefix(p, s) == Len(p) <= Len(s) /\ SubSeq(s, 1, Len(p)) = p

(***************************************************************************)
(* ADIF record serialisation: <NAME:LENGTH>VALUE for each field, then the  *)
(* <EOR> terminator.  fields is a sequence of <<name, value>> pairs.       *)
(***************************************************************************)
AdifField(name, value) ==
    "<" \o name \o ":" \o ToString(Len(value)) \o ">" \o value \o " "

RECURSIVE AdifFields(_)
AdifFields(fields) ==
    IF fields = <<>> THEN ""
    ELSE AdifField(Head(fields)[1], Head(fields)[2]) \o AdifFields(Tail(fields))

AdifRecord(fields) == AdifFields(fields) \o "<EOR>"

(***************************************************************************)
(* LogFile (src/src/LogFile.py).                                           *)
(***************************************************************************)
\* The file names the program uses: globals.log_name and the demo's my_filename
Paths == {"log/simplelog_log.adi", "testfile.adi"}

NoFile == [exists |-> FALSE, data |-> ""]

\* os.path.basename(sys.argv[0]) of the running program
ProgramName == "simplelog.py"

\* hdr, the text _create writes
HeaderNoEoh == "ADIF log file created by " \o ProgramName \o "\n"

Header == "ADIF log file created by " \o ProgramName \o "\n<EOH>\n"

\* The records the callers append in this model
ExampleRecord == AdifRecord(<< <<"CALL", "AB3GY">>, <<"RST_SENT", "599">> >>)

Records == {AdifRecord(<<>>), ExampleRecord}

\* os.path.isfile(path)
IsFile(fsv, path) == path \in Paths /\ fsv[path].exists

\* How many characters of data a write can put in the file: all of them
\* (the write succeeds), or fewer (the write or the close raises).
WriteCuts(data) == {k \in 0..Len(data) : k = Len(data) \/ k <= MaxPartial}

\* What the environment does to the I/O steps of one call
IoOutcomes(rec) ==
    [openW : BOOLEAN, hdrK : WriteCuts(Header),
     openA : BOOLEAN, recK : WriteCuts(rec \o "\n")]

\* open(path, 'w'): creates or truncates the file
OpenW(fsv, path) == [fsv EXCEPT ![path] = [exists |-> TRUE, data |-> ""]]

\* open(path, 'a'): creates the file when missing, keeps its content
OpenATruncates(fsv, path) == [fsv EXCEPT ![path] = [exists |-> TRUE, data |-> ""]]

OpenA(fsv, path) == [fsv EXCEPT ![path] = [exists |-> TRUE, data |-> fsv[path].data]]

\* fd.write(data) of which k characters reach the file
WriteK(fsv, path, data, k) ==
    [fsv EXCEPT ![path].data = fsv[path].data \o Prefix(data, k)]

\* except Exception as err: the handler catches the errors open and write raise
Caught(exc) == exc \in {"OSError"}

\* LogFile._create: [fs, ok, printed, raised].  The open and the write are
\* in a try block; its handler prints the error and leaves ok False.
Create(fsv, filename, io) ==
    IF Len(filename) = 0
    THEN [fs |-> fsv, ok |-> FALSE, printed |-> 1, raised |-> FALSE]
    ELSE LET exc == IF ~io.openW \/ io.hdrK < Len(Header) THEN "OSError" ELSE "none"
             f == IF io.openW
                  THEN WriteK(OpenW(fsv, filename), filename, Header, io.hdrK)
                  ELSE fsv
         IN  [fs |-> f, ok |-> exc = "none",
              printed |-> IF Caught(exc) THEN 1 ELSE 0,
              raised |-> exc # "none" /\ ~Caught(exc)]

\* The try block of LogFile.append and its handler: [fs, ok, printed, raised]
AppendWriteOkEarly(fsv, filename, record, io) ==
    LET exc == IF ~io.openA \/ io.recK < Len(record \o "\n") THEN "OSError" ELSE "none"
        f == IF io.openA
             THEN WriteK(OpenA(fsv, filename), filename, record \o "\n", io.recK)
             ELSE fsv
    IN  [fs |-> f, ok |-> TRUE,
         printed |-> IF Caught(exc) THEN 1 ELSE 0,
         raised |-> exc # "none" /\ ~Caught(exc)]

AppendWrite(fsv, filename, record, io) ==
    LET exc == IF ~io.openA \/ io.recK < Len(record \o "\n") THEN "OSError" ELSE "none"
        f == IF io.openA
             THEN WriteK(OpenA(fsv, filename), filename, record \o "\n", io.recK)
             ELSE fsv
    IN  [fs |-> f, ok |-> exc = "none",
         printed |-> IF Caught(exc) THEN 1 ELSE 0,
         raised |-> exc # "none" /\ ~Caught(exc)]

\* The file name append works on: its argument when given, else self.filename
EffectiveNameDefault(filename, selfName) ==
    IF Len(filename) > 0 THEN filename
    ELSE IF Len(selfName) > 0 THEN selfName ELSE "testfile.adi"

EffectiveName(filename, selfName) ==
    IF Len(filename) > 0 THEN filename ELSE selfName

\* LogFile.append(record, filename) on an object whose filename is selfName:
\* [fs, filename, ok, printed, raised, create]
AppendResult(fsv, selfName, record, filename, io) ==
    LET name == EffectiveName(filename, selfName)
    IN  IF Len(name) = 0
        THEN [fs |-> fsv, filename |-> name, ok |-> FALSE, printed |-> 1,
              raised |-> FALSE, create |-> "none"]
        ELSE IF ~IsFile(fsv, name)
        THEN LET c == Create(fsv, name, io)
             IN  IF ~c.ok
                 THEN [fs |-> c.fs, filename |-> name, ok |-> FALSE,
                       printed |-> c.printed, raised |-> c.raised, create |-> "failed"]
                 ELSE LET w == AppendWrite(c.fs, name, record, io)
                      IN  [fs |-> w.fs, filename |-> name, ok |-> w.ok,
                           printed |-> w.printed, raised |-> w.raised, create |-> "ok"]
        ELSE LET w == AppendWrite(fsv, name, record, io)
             IN  [fs |-> w.fs, filename |-> name, ok |-> w.ok,
                  printed |-> w.printed, raised |-> w.raised, create |-> "none"]

\* LogFile.__init__(filename, create): [fs, printed, create]
InitResultAlways(fsv, filename, create, io) ==
    IF Len(filename) > 0 /\ ~IsFile(fsv, filename)
    THEN LET c == Create(fsv, filename, io)
         IN  [fs |-> c.fs, printed |-> c.printed, create |-> IF c.ok THEN "ok" ELSE "failed"]
    ELSE [fs |-> fsv, printed |-> 0, create |-> "none"]

InitResult(fsv, filename, create, io) ==
    IF Len(filename) > 0 /\ create /\ ~IsFile(fsv, filename)
    THEN LET c == Create(fsv, filename, io)
         IN  [fs |-> c.fs, printed |-> c.printed, create |-> IF c.ok THEN "ok" ELSE "failed"]
    ELSE [fs |-> fsv, printed |-> 0, create |-> "none"]

NoCall ==
    [op |-> "none", filename |-> "", record |-> "", ok |-> FALSE, printed |-> 0,
     raised |-> FALSE, create |-> "none", flag |-> FALSE, arg |-> "", pre |-> NoFile]

\* my_file = LogFile(filename, create)
LogConstruct(filename, create, io) ==
    /\ ~lf.made
    /\ LET r == InitResult(fs, filename, create, io)
       IN  /\ fs' = r.fs
           /\ lf' = [made |-> TRUE, filename |-> filename, ctor |-> r.create]
           /\ last' = [op |-> "init", filename |-> filename, record |-> "",
                       ok |-> FALSE, printed |-> r.printed, raised |-> FALSE,
                       create |-> r.create, flag |-> create, arg |-> filename,
                       pre |-> IF filename \in Paths THEN fs[filename] ELSE NoFile]
    /\ UNCHANGED <<okRecs, nCalls>>

\* my_file.append(record, filename)
LogAppend(record, filename, io) ==
    /\ lf.made
    /\ nCalls < MaxCalls
    /\ LET r == AppendResult(fs, lf.filename, record, filename, io)
       IN  /\ fs' = r.fs
           /\ lf' = [lf EXCEPT !.filename = r.filename]
           /\ last' = [op |-> "append", filename |-> r.filename, record |-> record,
                       ok |-> r.ok, printed |-> r.printed, raised |-> r.raised,
                       create |-> r.create, flag |-> FALSE, arg |-> filename,
                       pre |-> IF r.filename \in Paths THEN fs[r.filename] ELSE NoFile]
           /\ okRecs' = IF r.ok
                        THEN [okRecs EXCEPT ![r.filename] = Append(@, record)]
                        ELSE okRecs
    /\ nCalls' = nCalls + 1

(***************************************************************************)
(* Regular expressions of the validators.  A pattern is a sequence of      *)
(* items [set, min, max]: between min and max characters of set, max = -1  *)
(* meaning any number.  FullMatch is re.fullmatch for such a pattern.      *)
(***************************************************************************)
Digit == {"0", "1", "2", "3", "4", "5", "6", "7", "8", "9"}
Lower == {"a", "b", "c", "d", "e", "f", "g", "h", "i", "j", "k", "l", "m",
          "n", "o", "p", "q", "r", "s", "t", "u", "v", "w", "x", "y", "z"}
Upper == {"A", "B", "C", "D", "E", "F", "G", "H", "I", "J", "K", "L", "M",
          "N", "O", "P", "Q", "R", "S", "T", "U", "V", "W", "X", "Y", "Z"}
Alnum == Lower \cup Upper \cup Digit

AllIn(s, set) == \A i \in 1..Len(s) : Ch(s, i) \in set

Count(s, c) == Cardinality({i \in 1..Len(s) : Ch(s, i) = c})

Contains(s, c) == \E i \in 1..Len(s) : Ch(s, i) = c

Item(set, min, max) == [set |-> set, min |-> min, max |-> max]

One(set) == Item(set, 1, 1)

RECURSIVE FullMatch(_, _)
FullMatch(pat, s) ==
    IF pat = <<>> THEN Len(s) = 0
    ELSE LET it == Head(pat)
             hi == IF it.max = -1 \/ it.max > Len(s) THEN Len(s) ELSE it.max
         IN  \E k \in it.min..hi :
                /\ AllIn(Prefix(s, k), it.set)
                /\ FullMatch(Tail(pat), SubSeq(s, k + 1, Len(s)))

\* The numeric characters the model draws from: the decimal digits, and the
\* fraction one half (U+00BD) standing for the characters of Unicode that are
\* numeric without being digits.
Numeric == Digit \cup {"½"}

\* str.isnumeric(): at least one character, all of them numeric
IsNumeric(s) == Len(s) > 0 /\ AllIn(s, Numeric)

(***************************************************************************)
(* The validators (src/src/validators.py).  why is "1" for an insertion,   *)
(* "0" for a deletion and "-1" for anything else; where is the index of    *)
(* the edit, what the text inserted or deleted and all the text the        *)
(* field will hold if the edit is allowed.                                 *)
(***************************************************************************)
CallsignValidatorDash(why, where, what, all) ==
    LET pat == << Item(Alnum \cup {"/", "-"}, 1, -1) >>
    IN  IF why # "1" THEN TRUE
        ELSE IF FullMatch(pat, what) THEN TRUE
        ELSE FALSE

CallsignValidator(why, where, what, all) ==
    LET pat == << Item(Alnum \cup {"/"}, 1, -1) >>
    IN  IF why # "1" THEN TRUE
        ELSE IF FullMatch(pat, what) THEN TRUE
        ELSE FALSE

DatePat1 == << Item(Digit, 1, 4), Item({"-"}, 0, 1) >>
DatePat2 == << Item(Digit, 4, 4), One({"-"}), Item(Digit, 1, 2) >>
DatePat3 == << Item(Digit, 4, 4), One({"-"}), Item(Digit, 2, 2), Item({"-"}, 0, 1) >>
DatePat4 == << Item(Digit, 4, 4), One({"-"}), Item(Digit, 2, 2), One({"-"}),
               Item(Digit, 1, 2) >>
DatePat5 == << Item(Digit, 1, 2), Item({"/"}, 0, 1) >>
DatePat6 == << Item(Digit, 1, 2), One({"/"}), Item(Digit, 1, 2), Item({"/"}, 0, 1) >>
DatePat7 == << Item(Digit, 1, 2), One({"/"}), Item(Digit, 1, 2), One({"/"}),
               Item(Digit, 1, 4) >>

DateValidatorShortYear(why, where, what, all) ==
    IF why # "1" THEN TRUE
    ELSE \/ FullMatch(DatePat1, all) \/ FullMatch(DatePat2, all)
         \/ FullMatch(DatePat3, all) \/ FullMatch(DatePat4, all)
         \/ FullMatch(DatePat5, all) \/ FullMatch(DatePat6, all)
         \/ FullMatch(<< Item(Digit, 1, 2), One({"/"}), Item(Digit, 1, 2), One({"/"}),
                         Item(Digit, 1, 2) >>, all)

DateValidator(why, where, what, all) ==
    IF why # "1" THEN TRUE
    ELSE IF FullMatch(DatePat1, all) THEN TRUE
    ELSE IF FullMatch(DatePat2, all) THEN TRUE
    ELSE IF FullMatch(DatePat3, all) THEN TRUE
    ELSE IF FullMatch(DatePat4, all) THEN TRUE
    ELSE IF FullMatch(DatePat5, all) THEN TRUE
    ELSE IF FullMatch(DatePat6, all) THEN TRUE
    ELSE IF FullMatch(DatePat7, all) THEN TRUE
    ELSE FALSE

FrequencyValidatorDotsFirst(why, where, what, all) ==
    LET pat == << Item(Digit, 0, -1), One({"."}), Item(Digit, 0, -1) >>
    IN  IF why # "1" THEN TRUE
        ELSE IF Len(all) > 10 THEN FALSE
        ELSE IF Count(all, ".") > 1 THEN FALSE
        ELSE IF IsNumeric(what) THEN TRUE
        ELSE IF FullMatch(pat, what) THEN TRUE
        ELSE FALSE

FrequencyValidator(why, where, what, all) ==
    LET pat == << Item(Digit, 0, -1), One({"."}), Item(Digit, 0, -1) >>
    IN  IF why # "1" THEN TRUE
        ELSE IF Len(all) > 10 THEN FALSE
        ELSE IF IsNumeric(what) THEN TRUE
        ELSE IF Count(all, ".") > 1 THEN FALSE
        ELSE IF FullMatch(pat, what) THEN TRUE
        ELSE FALSE

PowerValidator(why, where, what, all) ==
    IF why # "1" THEN TRUE
    ELSE IF Len(all) > 4 THEN FALSE
    ELSE IF IsNumeric(what) THEN TRUE
    ELSE FALSE

Rst15Wide == {"1", "2", "3", "4", "5", "6"}
Rst15 == {"1", "2", "3", "4", "5"}
Rst19 == {"1", "2", "3", "4", "5", "6", "7", "8", "9"}

RstMatchAnyFirst(all) ==
    \/ FullMatch(<< One(Rst19) >>, all)
    \/ FullMatch(<< One(Rst19), One(Rst19) >>, all)
    \/ FullMatch(<< One(Rst19), One(Rst19), One(Rst19) >>, all)
    \/ FullMatch(<< One({"+", "-"}), Item(Digit, 0, 2) >>, all)

RstMatch(all) ==
    \/ FullMatch(<< One(Rst15) >>, all)
    \/ FullMatch(<< One(Rst15), One(Rst19) >>, all)
    \/ FullMatch(<< One(Rst15), One(Rst19), One(Rst19) >>, all)
    \/ FullMatch(<< One({"+", "-"}), Item(Digit, 0, 2) >>, all)

RstValidatorNoWhy(why, where, what, all) == RstMatch(all)

RstValidator(why, where, what, all) ==
    IF why # "1" THEN TRUE ELSE RstMatch(all)

SigInfoValidator(why, where, what, all) ==
    LET pat == << Item(Alnum \cup {"-"}, 1, -1) >>
    IN  IF why # "1" THEN TRUE
        ELSE IF FullMatch(pat, what) THEN TRUE
        ELSE FALSE

StateValidator(why, where, what, all) ==
    LET pat == << Item(Alnum, 1, 3) >>
    IN  IF why # "1" THEN TRUE
        ELSE IF FullMatch(pat, all) THEN TRUE
        ELSE FALSE

TextValidatorQuoteOnly(why, where, what, all) ==
    IF why # "1" THEN TRUE
    ELSE IF Contains(what, "\"") THEN FALSE
    ELSE TRUE

TextValidator(why, where, what, all) ==
    IF why # "1" THEN TRUE
    ELSE IF Contains(what, "\"") THEN FALSE
    ELSE IF Contains(what, "\\") THEN FALSE
    ELSE TRUE

TimeValidatorOptionalColon(why, where, what, all) ==
    LET pat == << Item(Digit, 1, 2), Item({":"}, 0, 1), Item(Digit, 0, 2) >>
    IN  IF why # "1" THEN TRUE
        ELSE IF FullMatch(pat, all) THEN TRUE
        ELSE FALSE

TimeValidator(why, where, what, all) ==
    LET pat1 == << Item(Digit, 1, 2) >>
        pat2 == << Item(Digit, 1, 2), One({":"}), Item(Digit, 0, 2) >>
    IN  IF why # "1" THEN TRUE
        ELSE IF FullMatch(pat1, all) THEN TRUE
        ELSE IF FullMatch(pat2, all) THEN TRUE
        ELSE FALSE

Validators ==
    {"callsign", "date", "frequency", "power", "rst", "sig_info", "state",
     "text", "time"}

\* The call of the validator named v
Validate(v, why, where, what, all) ==
    CASE v = "callsign"  -> CallsignValidator(why, where, what, all)
      [] v = "date"      -> DateValidator(why, where, what, all)
      [] v = "frequency" -> FrequencyValidator(why, where, what, all)
      [] v = "power"     -> PowerValidator(why, where, what, all)
      [] v = "rst"       -> RstValidator(why, where, what, all)
      [] v = "sig_info"  -> SigInfoValidator(why, where, what, all)
      [] v = "state"     -> StateValidator(why, where, what, all)
      [] v = "text"      -> TextValidator(why, where, what, all)
      [] v = "time"      -> TimeValidator(why, where, what, all)

(***************************************************************************)
(* The edits Tk hands to a validate command registered with the            *)
(* substitutions %d %i %S %P (why, where, what, all), on a field holding   *)
(* the text pre.                                                           *)
(***************************************************************************)
InsertEdit(pre, where, what) ==
    [why |-> "1", where |-> where, what |-> what,
     all |-> SubSeq(pre, 1, where) \o what \o SubSeq(pre, where + 1, Len(pre)),
     pre |-> pre]

DeleteEdit(pre, where, n) ==
    [why |-> "0", where |-> where, what |-> SubSeq(pre, where + 1, where + n),
     all |-> SubSeq(pre, 1, where) \o SubSeq(pre, where + n + 1, Len(pre)),
     pre |-> pre]

ForcedEdit(pre) ==
    [why |-> "-1", where |-> -1, what |-> "", all |-> pre, pre |-> pre]

RECURSIVE StringsOfLen(_, _)
StringsOfLen(alphabet, n) ==
    IF n = 0 THEN {""}
    ELSE {s \o c : s \in StringsOfLen(alphabet, n - 1), c \in alphabet}

StringsUpTo(alphabet, n) == UNION {StringsOfLen(alphabet, k) : k \in 0..n}

(***************************************************************************)
(* The text entry widget (src/src/WidgetTextEntry.py) as WidgetQsoEntry    *)
(* configures it for the fixed fields (src/src/WidgetQsoEntry.py).         *)
(***************************************************************************)
TextFields == {"CALL", "RST_SENT", "RST_RCVD", "QSO_DATE", "TIME_ON", "FREQ", "COMMENT"}

\* validator= of the field's WidgetTextEntry
FieldValidator(field) ==
    CASE field = "CALL"     -> "callsign"
      [] field = "RST_SENT" -> "rst"
      [] field = "RST_RCVD" -> "rst"
      [] field = "QSO_DATE" -> "date"
      [] field = "TIME_ON"  -> "time"
      [] field = "FREQ"     -> "frequency"
      [] field = "COMMENT"  -> "text"

\* to_upper= of the field's WidgetTextEntry
FieldToUpper(field) == field = "CALL"

LowerChars == "abcdefghijklmnopqrstuvwxyz"
UpperChars == "ABCDEFGHIJKLMNOPQRSTUVWXYZ"

UpperCh(c) ==
    IF c \in Lower
    THEN Ch(UpperChars, CHOOSE i \in 1..Len(LowerChars) : Ch(LowerChars, i) = c)
    ELSE c

\* str.upper()
RECURSIVE ToUpper(_)
ToUpper(s) ==
    IF Len(s) = 0 THEN ""
    ELSE UpperCh(Ch(s, 1)) \o ToUpper(SubSeq(s, 2, Len(s)))

\* The options of the tk.Entry: keystrokes are validated, and nothing is run
\* when the validate command rejects one.
EntryOptions == [validate |-> "key", invalidcommand |-> FALSE]

\* The text of the field after a keystroke edit: the edit is applied only
\* when the validate command accepted it, and the write trace of a to_upper
\* field then converts the text to upper case.
EntryTextAlways(field, edit, accept) ==
    IF FieldToUpper(field) THEN ToUpper(edit.all) ELSE edit.all

EntryText(field, edit, accept) ==
    IF EntryOptions.validate = "key" /\ ~accept THEN edit.pre
    ELSE IF FieldToUpper(field) THEN ToUpper(edit.all)
    ELSE edit.all

\* One keystroke edit on the widget
KeyEdit(edit) ==
    LET accept == Validate(FieldValidator(wField), edit.why, edit.where,
                           edit.what, edit.all)
    IN  /\ wValue' = EntryText(wField, edit, accept)
        /\ lastEdit' = [why |-> edit.why, where |-> edit.where, what |-> edit.what,
                        all |-> edit.all, pre |-> edit.pre, accept |-> accept]
        /\ shown' = (shown \/ (~accept /\ EntryOptions.invalidcommand))
        /\ UNCHANGED wField

(***************************************************************************)
(* The QSO entry form (src/src/WidgetQsoEntry.py).  A widget is a record    *)
(* of what the form shows; self.widgets holds the ones the form logs.       *)
(***************************************************************************)
\* RecordFormatter (format_adif of src.simplelogUtils): the fields it knows
KnownFields ==
    {"BAND", "CALL", "COMMENT", "FREQ", "MODE", "QSO_DATE", "RST_RCVD", "RST_SENT",
     "TIME_ON"}

\* whitespace trimming
RECURSIVE Trim(_)
Trim(s) ==
    IF Len(s) = 0 THEN ""
    ELSE IF Ch(s, 1) = " " THEN Trim(SubSeq(s, 2, Len(s)))
    ELSE IF Ch(s, Len(s)) = " " THEN Trim(SubSeq(s, 1, Len(s) - 1))
    ELSE s

FormatAdifTrimOne(field, value) ==
    IF field \in KnownFields /\ Len(value) > 0 /\ Ch(value, 1) = " "
    THEN SubSeq(value, 2, Len(value))
    ELSE value

\* format(fieldName, rawValue): normalises the value of a field it knows,
\* passes the value of any other field through unchanged
FormatAdif(field, value) == IF field \in KnownFields THEN Trim(value) ELSE value

\* QsoRecord, an ordered mapping from field name to value (adif.set_field):
\* a name already in the record keeps its place and takes the new value
AdifSetField(fields, name, value) ==
    IF \E j \in 1..Len(fields) : fields[j][1] = name
    THEN [j \in 1..Len(fields) |->
             IF fields[j][1] = name THEN <<name, value>> ELSE fields[j]]
    ELSE Append(fields, <<name, value>>)

\* The choices of the combo boxes (bands.txt, modes.txt)
BandList == <<"20M", "40M">>
ModeList == <<"SSB", "CW">>

\* A widget of the form: its key in the widgets dictionary, its ADIF field
\* name (_adif_field), its text (_value), the validate command of its entry
\* ("combo" for a combo box), its to_upper flag, its width, the number of the
\* user-defined field it was made for (0 for a fixed field) and whether
\* self.widgets still holds it.
Widget(key, field, value, validator, upper, width, slot) ==
    [key |-> key, field |-> field, value |-> value, validator |-> validator,
     upper |-> upper, width |-> width, slot |-> slot, indict |-> TRUE]

\* width= of WidgetTextEntry.__init__ when none is given
TextEntryWidth == 12

\* width= of the combo boxes of the form
ComboBoxWidth == 10

\* self.widgets after init() made the fixed fields: the keys in the order of
\* the dictionary, every text empty but the mode, which is the first mode of
\* the list
FormWidgets ==
    << Widget("BAND", "BAND", "", "combo", FALSE, ComboBoxWidth, 0),
       Widget("CALL", "CALL", "", FieldValidator("CALL"), FieldToUpper("CALL"),
              TextEntryWidth, 0),
       Widget("COMMENT", "COMMENT", "", FieldValidator("COMMENT"),
              FieldToUpper("COMMENT"), 75, 0),
       Widget("FREQ", "FREQ", "", FieldValidator("FREQ"), FieldToUpper("FREQ"),
              14, 0),
       Widget("MODE", "MODE", ModeList[1], "combo", FALSE, ComboBoxWidth, 0),
       Widget("QSO_DATE", "QSO_DATE", "", FieldValidator("QSO_DATE"),
              FieldToUpper("QSO_DATE"), TextEntryWidth, 0),
       Widget("RST_RCVD", "RST_RCVD", "", FieldValidator("RST_RCVD"),
              FieldToUpper("RST_RCVD"), TextEntryWidth, 0),
       Widget("RST_SENT", "RST_SENT", "", FieldValidator("RST_SENT"),
              FieldToUpper("RST_SENT"), TextEntryWidth, 0),
       Widget("TIME_ON", "TIME_ON", "", FieldValidator("TIME_ON"),
              FieldToUpper("TIME_ON"), TextEntryWidth, 0) >>

\* The widgets self.widgets holds, in the order of the dictionary
DictWidgets(ws) == SelectSeq(ws, LAMBDA w : w.indict)

\* The index in ws of the widget self.widgets holds under key, 0 when none
DictIndex(ws, key) ==
    IF \E i \in 1..Len(ws) : ws[i].indict /\ ws[i].key = key
    THEN CHOOSE i \in 1..Len(ws) : ws[i].indict /\ ws[i].key = key
    ELSE 0

\* self.widgets[w.key] = w: a new key goes to the end of the dictionary, the
\* value of a key the dictionary has is replaced where it stands; the widget
\* it held stays on the form, and is kept here behind the others
DictSet(ws, w) ==
    LET i == DictIndex(ws, w.key)
    IN  IF i = 0 THEN Append(ws, w)
        ELSE Append([ws EXCEPT ![i] = w], [ws[i] EXCEPT !.indict = FALSE])

\* The choices of the combo box of key
ComboValues(key) == IF key = "BAND" THEN BandList ELSE ModeList

\* widget.get_field()
GetField(w) == ToUpper(w.field)

\* widget.get_value()
GetValue(w) == w.value

\* The test of log_qso on a field and its formatted value
QsoIncludeOr(field, value) == (Len(field) > 0) \/ (Len(value) > 0)

QsoInclude(field, value) == (Len(field) > 0) /\ (Len(value) > 0)

\* The loop of log_qso over the widgets ws, on the record acc built so far
RECURSIVE QsoFields(_, _)
QsoFields(ws, acc) ==
    IF ws = <<>> THEN acc
    ELSE LET field == GetField(Head(ws))
             value == FormatAdif(field, GetValue(Head(ws)))
         IN  QsoFields(Tail(ws),
                       IF QsoInclude(field, value)
                       THEN AdifSetField(acc, field, value)
                       ELSE acc)

\* The text of a widget after a keystroke edit (see EntryText)
WidgetText(w, edit, accept) ==
    IF EntryOptions.validate = "key" /\ ~accept THEN edit.pre
    ELSE IF w.upper THEN ToUpper(edit.all)
    ELSE edit.all

\* What the form did last: the operation, the widgets it read, the fields
\* and the record log_qso built, the records it passed to append and the
\* result of append, the exception that left the handler
NoQso ==
    [op |-> "none", read |-> <<>>, fields |-> <<>>, record |-> "",
     appended |-> <<>>, ok |-> FALSE, err |-> "none"]

\* A keystroke on the text widget at index i: the user types what at the end
QsoType(i, what) ==
    LET w == widgets[i]
        edit == InsertEdit(w.value, Len(w.value), what)
        accept == Validate(w.validator, edit.why, edit.where, edit.what, edit.all)
    IN  /\ w.validator # "combo"
        /\ widgets' = [widgets EXCEPT ![i].value = WidgetText(w, edit, accept)]
        /\ qso' = NoQso
        /\ UNCHANGED <<config, form>>

\* The user picks the choice v of the combo box at index i
QsoSelect(i, v) ==
    /\ widgets[i].validator = "combo"
    /\ widgets' = [widgets EXCEPT ![i].value = v]
    /\ qso' = NoQso
    /\ UNCHANGED <<config, form>>

\* widget.set_field(name) on the widget at index i
QsoSetFieldRaw(i, name) ==
    /\ widgets' = [widgets EXCEPT ![i].field = name]
    /\ qso' = NoQso
    /\ UNCHANGED <<config, form>>

QsoSetField(i, name) ==
    /\ widgets' = [widgets EXCEPT ![i].field = ToUpper(name)]
    /\ qso' = NoQso
    /\ UNCHANGED <<config, form>>

\* clear_qso(): every widget of self.widgets is cleared
QsoClear ==
    /\ widgets' = [i \in 1..Len(widgets) |->
                     IF widgets[i].indict THEN [widgets[i] EXCEPT !.value = ""]
                     ELSE widgets[i]]
    /\ qso' = [NoQso EXCEPT !.op = "clear", !.read = widgets]
    /\ UNCHANGED <<nEdits, config, form>>

\* log_qso(): the record is built from the widgets of self.widgets and
\* appended to globals.log_file, whose result is not looked at
QsoLogSkipEmpty(io, record) ==
    LET fields == QsoFields(DictWidgets(widgets), <<>>)
        r == AppendResult(fs, lf.filename, record, "", io)
    IN  /\ record = AdifRecord(fields)
        /\ fs' = IF fields = <<>> THEN fs ELSE r.fs
        /\ lf' = [lf EXCEPT !.filename = r.filename]
        /\ nCalls' = nCalls + 1
        /\ qso' = [op |-> "log", read |-> widgets, fields |-> fields,
                   record |-> record,
                   appended |-> IF fields = <<>> THEN <<>> ELSE <<record>>,
                   ok |-> (fields # <<>> /\ r.ok), err |-> "none"]
        /\ UNCHANGED <<widgets, nEdits, last, okRecs, config, form>>

QsoLog(io, record) ==
    LET fields == QsoFields(DictWidgets(widgets), <<>>)
        r == AppendResult(fs, lf.filename, record, "", io)
    IN  /\ record = AdifRecord(fields)
        /\ fs' = r.fs
        /\ lf' = [lf EXCEPT !.filename = r.filename]
        /\ nCalls' = nCalls + 1
        /\ qso' = [op |-> "log", read |-> widgets, fields |-> fields,
                   record |-> record, appended |-> <<record>>,
                   ok |-> r.ok, err |-> "none"]
        /\ UNCHANGED <<widgets, nEdits, last, okRecs, config, form>>

\* float(s) of Python on a text of digits, dots, signs and blanks: the text
\* is stripped, a sign may lead, and the rest is digits with at most one
\* dot and at least one digit.  [ok, neg, int, frac]: whether it converts,
\* its sign, its integer part and whether its fraction is not zero.
DigitValue(c) == CHOOSE n \in 0..9 : ToString(n) = c

RECURSIVE ParseNat(_)
ParseNat(s) ==
    IF Len(s) = 0 THEN 0
    ELSE 10 * ParseNat(SubSeq(s, 1, Len(s) - 1)) + DigitValue(Ch(s, Len(s)))

Unsigned(s) ==
    IF Len(s) > 0 /\ Ch(s, 1) \in {"+", "-"} THEN SubSeq(s, 2, Len(s)) ELSE s

DotAt(s) == IF Contains(s, ".") THEN CHOOSE i \in 1..Len(s) : Ch(s, i) = "."
            ELSE Len(s) + 1

PyFloat(s) ==
    LET t == Unsigned(Trim(s))
        a == SubSeq(t, 1, DotAt(t) - 1)
        b == SubSeq(t, DotAt(t) + 1, Len(t))
    IN  IF AllIn(a, Digit) /\ AllIn(b, Digit) /\ Len(a) + Len(b) > 0
        THEN [ok |-> TRUE,
              neg |-> (Len(Trim(s)) > 0 /\ Ch(Trim(s), 1) = "-"),
              int |-> ParseNat(a),
              frac |-> (\E i \in 1..Len(b) : Ch(b, i) # "0")]
        ELSE [ok |-> FALSE, neg |-> FALSE, int |-> 0, frac |-> FALSE]

\* Band lookup (freq2band of adif) on the frequency f in kHz: the band of
\* BandList whose edges hold f, "NONE" when no band does
InBand(f, lo, hi) ==
    ~f.neg /\ f.int >= lo /\ (f.int < hi \/ (f.int = hi /\ ~f.frac))

Freq2Band(f) ==
    IF InBand(f, 14000, 14350) THEN "20M"
    ELSE IF InBand(f, 7000, 7300) THEN "40M"
    ELSE "NONE"

\* _set_band(): [widgets, err], err the exception that leaves the handler
SetBand(ws) ==
    LET freq_khz == GetValue(ws[DictIndex(ws, "FREQ")])
        b == DictIndex(ws, "BAND")
        f == PyFloat(freq_khz)
        band == Freq2Band(f)
    IN  IF Len(freq_khz) = 0 THEN [widgets |-> ws, err |-> "none"]
        ELSE IF ~f.ok THEN [widgets |-> ws, err |-> "ValueError"]
        ELSE IF band = "NONE"
        THEN [widgets |-> [ws EXCEPT ![b].value = ""], err |-> "none"]
        ELSE IF Len(band) > 0
        THEN [widgets |-> [ws EXCEPT ![b].value = band], err |-> "none"]
        ELSE [widgets |-> ws, err |-> "none"]

\* <FocusOut> of the FREQ entry: _set_band() runs
QsoFocusOut ==
    /\ widgets' = SetBand(widgets).widgets
    /\ qso' = [NoQso EXCEPT !.op = "focusout", !.read = widgets,
                            !.err = SetBand(widgets).err]
    /\ UNCHANGED <<nEdits, config, form>>

\* The configuration store (globals.config), section USER_FIELDS:
\* [hasNum, slots], hasNum whether NUM_FIELDS is set, slots[i] the values of
\* TITLE_i, FIELD_i, WIDTH_i and UPPER_i, "" for a key the store has not.
NumUserFields == 4

Slot(title, field, width, upper) ==
    [title |-> title, field |-> field, width |-> width, upper |-> upper]

BlankSlot == Slot("", "", "", "")

\* config.get(section, key) for the keys of slot i
ConfigSlot(cfg, i) == IF i <= Len(cfg.slots) THEN cfg.slots[i] ELSE BlankSlot

\* to_int of src.simplelogUtils: the number the text spells, 0 for a text
\* that spells none
ToInt(s) == IF Len(s) > 0 /\ AllIn(s, Digit) THEN ParseNat(s) ELSE 0

\* _init_config(): [config, num_fields]
InitConfig(cfg) ==
    LET num_fields == IF cfg.hasNum THEN Len(cfg.slots) ELSE NumUserFields
    IN  [config |-> [hasNum |-> TRUE,
                     slots |-> [i \in 1..num_fields |-> ConfigSlot(cfg, i)]],
         num_fields |-> num_fields]

\* The attribute WidgetTextEntry.DEFAULT_WIDTH: the class has none
HasDefaultWidth == FALSE

\* _init_user_fields(num_fields, row) from slot i on, ws the widgets made so
\* far: [widgets, err]
RECURSIVE InitUserFields(_, _, _, _)
InitUserFields(cfg, num_fields, i, ws) ==
    IF i > num_fields THEN [widgets |-> ws, err |-> "none"]
    ELSE LET title_val == ConfigSlot(cfg, i).title
             field_val == ToUpper(ConfigSlot(cfg, i).field)
             width_val == ToInt(ConfigSlot(cfg, i).width)
             upper_val == Len(ConfigSlot(cfg, i).upper) > 0
         IN  IF width_val = 0 /\ ~HasDefaultWidth
             THEN [widgets |-> ws, err |-> "AttributeError"]
             ELSE IF Len(title_val) > 0 /\ Len(field_val) > 0
             THEN InitUserFields(cfg, num_fields, i + 1,
                      DictSet(ws, Widget(field_val, field_val, "", "text",
                                         upper_val,
                                         IF width_val = 0 THEN TextEntryWidth
                                         ELSE width_val, i)))
             ELSE InitUserFields(cfg, num_fields, i + 1, ws)

\* WidgetQsoEntry(parent): init() makes the fixed fields, then the
\* user-defined ones: [config, widgets, err]
FormResult(cfg) ==
    LET c == InitConfig(cfg)
        u == InitUserFields(c.config, c.num_fields, 1, FormWidgets)
    IN  [config |-> c.config, widgets |-> u.widgets, err |-> u.err]

(***************************************************************************)
(* Idle values of the variables a specification does not use.              *)
(***************************************************************************)
NoArgs == [why |-> "-1", where |-> -1, what |-> "", all |-> "", pre |-> ""]

NoVerdict == [v \in {} |-> FALSE]

NoEdit == [why |-> "-1", where |-> -1, what |-> "", all |-> "", pre |-> "", accept |-> TRUE]

LogIdle ==
    /\ fs = [p \in Paths |-> NoFile]
    /\ lf = [made |-> FALSE, filename |-> "", ctor |-> "none"]
    /\ last = NoCall
    /\ okRecs = [p \in Paths |-> <<>>]
    /\ nCalls = 0

ValIdle == vArgs = NoArgs /\ vOut = NoVerdict

KeyIdle == wField = "" /\ wValue = "" /\ lastEdit = NoEdit /\ shown = FALSE

NoConfig == [hasNum |-> FALSE, slots |-> <<>>]

QsoIdle ==
    /\ widgets = <<>> /\ qso = NoQso /\ nEdits = 0
    /\ config = NoConfig /\ form = "none"

RaceIdle == pc = <<>>

NoFmt == [field |-> "", value |-> "", once |-> "", twice |-> "", done |-> FALSE]

FmtIdle == fmt = NoFmt

(***************************************************************************)
(* SpecLog: one LogFile object, constructed and then appended to, on a     *)
(* file system where every path starts absent and every I/O step may fail. *)
(***************************************************************************)
LogInit == LogIdle /\ ValIdle /\ KeyIdle /\ QsoIdle /\ RaceIdle /\ FmtIdle

LogNext ==
    \/ \E filename \in Paths \cup {""}, create \in BOOLEAN :
           \E io \in IoOutcomes("") :
              LogConstruct(filename, create, io) /\ UNCHANGED <<valVars, keyVars, qsoVars, raceVars, fmtVars>>
    \/ \E record \in Records, filename \in Paths \cup {""} :
           \E io \in IoOutcomes(record) :
              LogAppend(record, filename, io) /\ UNCHANGED <<valVars, keyVars, qsoVars, raceVars, fmtVars>>

SpecLog == LogInit /\ [][LogNext]_vars

(***************************************************************************)
(* SpecVal: every validator applied to one edit Tk can produce.  The       *)
(* initial state draws a text; one step draws an edit of it (an insertion  *)
(* into it, an insertion that results in it, a deletion from it, a forced  *)
(* validation of it) and applies every validator to the edit.              *)
(***************************************************************************)
MaxPreLen == 2      \* length of the generated field texts

ValChars ==
    {"0", "5", "9", "½", "a", "Z", "/", "-", "+", ".", ":", "\"", "\\", " "}

\* The texts the testable properties of the specification name
SampleTexts ==
    {"2023-09-05", "09/05/2023", "09/05/23", "2023/09/05", "14250.500",
     "14.250.500", "12345678901", "599", "-12", "699", "6", "AB3GY",
     "202-", "555", "1234", "12:34", "+123"}

ValTexts == StringsUpTo(ValChars, MaxPreLen) \cup SampleTexts

\* The spans <<where, n>> of n >= 1 characters at index where of a text
Spans(text) ==
    {wn \in (0..Len(text)) \X (1..Len(text)) : wn[1] + wn[2] <= Len(text)}

\* The insertion at index where of n characters whose resulting text is all
InsertInto(all, where, n) ==
    InsertEdit(SubSeq(all, 1, where) \o SubSeq(all, where + n + 1, Len(all)),
               where, SubSeq(all, where + 1, where + n))

Verdicts(edit) ==
    [v \in Validators |-> Validate(v, edit.why, edit.where, edit.what, edit.all)]

ValInit ==
    /\ LogIdle /\ KeyIdle /\ QsoIdle /\ RaceIdle /\ FmtIdle
    /\ \E text \in ValTexts : vArgs = ForcedEdit(text)
    /\ vOut = NoVerdict

ValStep(edit) ==
    /\ vOut = NoVerdict
    /\ vArgs' = edit
    /\ vOut' = Verdicts(edit)
    /\ UNCHANGED <<logVars, keyVars, qsoVars, raceVars, fmtVars>>

\* one character typed into the text
ValInsert(where, what) == ValStep(InsertEdit(vArgs.pre, where, what))

\* the text is the result of typing or pasting one of its spans
ValInsertInto(wn) == ValStep(InsertInto(vArgs.pre, wn[1], wn[2]))

\* one of the spans of the text is deleted
ValDelete(wn) == ValStep(DeleteEdit(vArgs.pre, wn[1], wn[2]))

\* the text is validated without an edit
ValForced == ValStep(ForcedEdit(vArgs.pre))

ValNext ==
    \/ \E where \in 0..Len(vArgs.pre), what \in ValChars : ValInsert(where, what)
    \/ \E wn \in Spans(vArgs.pre) : ValInsertInto(wn)
    \/ \E wn \in Spans(vArgs.pre) : ValDelete(wn)
    \/ ValForced

SpecVal == ValInit /\ [][ValNext]_vars

(***************************************************************************)
(* SpecKey: keystrokes on one text entry widget of the form.               *)
(***************************************************************************)
MaxText == 2        \* length of the text keystrokes build
MaxPaste == 1       \* length of one insertion

KeyChars == {"0", "5", "9", "½", "a", "Z", "/", "-", ".", ":", "\""}

KeyInit == LogIdle /\ ValIdle /\ QsoIdle /\ RaceIdle /\ FmtIdle /\ wField \in TextFields /\ wValue = ""
           /\ lastEdit = NoEdit /\ shown = FALSE

\* The user types or pastes what at index where
KeyInsert(where, what) ==
    /\ Len(wValue) + Len(what) <= MaxText
    /\ KeyEdit(InsertEdit(wValue, where, what))
    /\ UNCHANGED <<logVars, valVars, qsoVars, raceVars, fmtVars>>

\* The user deletes n characters at index where
KeyDelete(where, n) ==
    /\ KeyEdit(DeleteEdit(wValue, where, n))
    /\ UNCHANGED <<logVars, valVars, qsoVars, raceVars, fmtVars>>

\* WidgetTextEntry.clear(): set_value(''), which is not validated
KeyClear ==
    /\ wValue' = ""
    /\ lastEdit' = [NoEdit EXCEPT !.pre = wValue]
    /\ UNCHANGED <<wField, shown, logVars, valVars, qsoVars, raceVars, fmtVars>>

KeyNext ==
    \/ \E where \in 0..Len(wValue), what \in StringsUpTo(KeyChars, MaxPaste) \ {""} :
          KeyInsert(where, what)
    \/ \E wn \in Spans(wValue) : KeyDelete(wn[1], wn[2])
    \/ KeyClear

SpecKey == KeyInit /\ [][KeyNext]_vars

(***************************************************************************)
(* SpecQso: the QSO entry form in use.  The log file object is constructed *)
(* on globals.log_name; the file is missing or holds its header.           *)
(***************************************************************************)
MaxOps == 2         \* number of edits and log actions on the form

\* The characters the user types on the form
QsoChars == {"5", " ", ".", "14250"}

\* The field names given to set_field
QsoFieldNames == {""}

QsoInit ==
    /\ ValIdle /\ KeyIdle /\ RaceIdle /\ FmtIdle
    /\ config = NoConfig /\ form = "ok"
    /\ fs \in {[p \in Paths |-> NoFile],
               [p \in Paths |-> IF p = "log/simplelog_log.adi"
                                THEN [exists |-> TRUE, data |-> Header]
                                ELSE NoFile]}
    /\ lf = [made |-> TRUE, filename |-> "log/simplelog_log.adi", ctor |-> "none"]
    /\ last = NoCall
    /\ okRecs = [p \in Paths |-> <<>>]
    /\ nCalls = 0
    /\ widgets = FormWidgets
    /\ qso = NoQso
    /\ nEdits = 0

\* One edit of a widget of the form: a keystroke with a text of chars, a
\* choice of a combo box, or set_field with a name of names
FormEdit(chars, names) ==
    /\ nEdits + nCalls < MaxOps
    /\ nEdits' = nEdits + 1
    /\ \E i \in 1..Len(widgets) :
          \/ \E what \in chars : QsoType(i, what)
          \/ \E k \in 1..Len(ComboValues(widgets[i].key)) :
                QsoSelect(i, ComboValues(widgets[i].key)[k])
          \/ \E name \in names : QsoSetField(i, name)
    /\ UNCHANGED <<logVars, valVars, keyVars, raceVars, fmtVars>>

\* The buttons Log QSO and Clear QSO, and the focus leaving FREQ
FormButtons ==
    \/ QsoClear /\ UNCHANGED <<logVars, valVars, keyVars, raceVars, fmtVars>>
    \/ QsoFocusOut /\ UNCHANGED <<logVars, valVars, keyVars, raceVars, fmtVars>>
    \/ /\ nEdits + nCalls < MaxOps
       /\ \E io \in IoOutcomes(AdifRecord(QsoFields(DictWidgets(widgets), <<>>))) :
             QsoLog(io, AdifRecord(QsoFields(DictWidgets(widgets), <<>>)))
       /\ UNCHANGED <<valVars, keyVars, raceVars, fmtVars>>

QsoEdit == FormEdit(QsoChars, QsoFieldNames)

QsoNext == QsoEdit \/ FormButtons

SpecQso == QsoInit /\ [][QsoNext]_vars

(***************************************************************************)
(* Claims about LogFile, checked under SpecLog.                            *)
(***************************************************************************)
RECURSIVE Lines(_)
Lines(recs) == IF recs = <<>> THEN "" ELSE Head(recs) \o "\n" \o Lines(Tail(recs))

LastFile == IF last.filename \in Paths THEN fs[last.filename] ELSE NoFile

\* C1: after any sequence of append calls on a path that starts absent, the
\* store holds exactly the header followed by the records of the calls that
\* returned True, one per line, in call order; a call that returned False
\* has contributed nothing.
C1_AllOrNothing ==
    (lf.made /\ lf.ctor = "none") =>
        \A p \in Paths :
            IF fs[p].exists
            THEN fs[p].data = "ADIF log file created by " \o ProgramName \o "\n<EOH>\n"
                                  \o Lines(okRecs[p])
            ELSE okRecs[p] = <<>>

\* C2: a successful append on a path where no file exists leaves exactly the
\* header, the record and one newline; the record of CALL=AB3GY,
\* RST_SENT=599 is the line <CALL:5>AB3GY <RST_SENT:3>599 <EOR>.
C2_FreshAppend ==
    (last.op = "append" /\ last.ok /\ ~last.pre.exists) =>
        /\ LastFile.exists
        /\ LastFile.data = "ADIF log file created by " \o ProgramName \o "\n<EOH>\n"
                               \o last.record \o "\n"
        /\ last.record = ExampleRecord =>
              LastFile.data = "ADIF log file created by simplelog.py\n<EOH>\n"
                                  \o "<CALL:5>AB3GY <RST_SENT:3>599 <EOR>\n"

C2_Witness ==
    last.op = "append" /\ last.ok /\ ~last.pre.exists /\ last.record = ExampleRecord

\* C3: an append call on a store that already exists keeps the content
\* before the call as a prefix of the content after it, and a successful
\* call adds exactly the record and a newline.
C3_AppendOnly ==
    (last.op = "append" /\ last.pre.exists) =>
        /\ LastFile.exists
        /\ IsPrefix(last.pre.data, LastFile.data)
        /\ last.ok => LastFile.data = last.pre.data \o last.record \o "\n"

C3_Witness ==
    /\ last.op = "append" /\ last.ok /\ last.pre.exists
    /\ Len(last.pre.data) > Len(Header)

\* C4: when creating the store fails during an append on an absent store,
\* append returns False and the store is still absent, with nothing written.
C4_CreateFailsAbsent ==
    (last.op = "append" /\ last.create = "failed") =>
        ~last.ok /\ ~LastFile.exists

\* C5: append never raises; every failure of the creation or of the record
\* write prints a diagnostic and returns False, and True is returned only
\* when the record line was written.
C5_NeverRaises ==
    last.op = "append" =>
        /\ ~last.raised
        /\ ~last.ok => last.printed >= 1
        /\ last.ok =>
              /\ last.printed = 0
              /\ LastFile.exists
              /\ LastFile.data =
                    (IF last.pre.exists THEN last.pre.data ELSE Header)
                        \o last.record \o "\n"

C5_Witness ==
    last.op = "append" /\ ~last.ok /\ last.create = "ok" /\ last.printed >= 1

\* C6: with no filename given to the constructor and none to append, append
\* returns False, prints a diagnostic and creates or modifies no file.
C6_NoFilename ==
    [][(lf.made /\ lf.filename = "" /\ last'.op = "append" /\ last'.arg = ""
            /\ nCalls' = nCalls + 1)
          => (~last'.ok /\ last'.printed >= 1 /\ fs' = fs /\ lf'.filename = "")]_vars

C6_Witness ==
    last.op = "append" /\ last.arg = "" /\ last.filename = "" /\ ~last.ok

\* C7 as stated: between constructing a LogFile for a missing path and its
\* first append the store is still absent.
C7_LazyCreate ==
    (last.op = "init" /\ last.filename \in Paths /\ ~last.pre.exists) =>
        ~LastFile.exists

\* C7 amended: the constructor leaves a missing store absent when it is
\* called with create=False, and the first successful append then creates
\* it; with create=True the constructor creates the store itself, header
\* included, when the creation succeeds.
C7_LazyUnlessCreateFlag ==
    /\ (last.op = "init" /\ last.filename \in Paths /\ ~last.pre.exists /\ ~last.flag) =>
          (~LastFile.exists /\ last.create = "none")
    /\ (last.op = "init" /\ last.filename \in Paths /\ ~last.pre.exists /\ last.flag) =>
          /\ last.create \in {"ok", "failed"}
          /\ last.create = "ok" => (LastFile.exists /\ LastFile.data = Header)
    /\ (last.op = "append" /\ ~last.pre.exists /\ last.ok) =>
          (last.create = "ok" /\ LastFile.exists)

C7_Witness ==
    last.op = "init" /\ last.filename \in Paths /\ ~last.flag /\ ~LastFile.exists

(***************************************************************************)
(* Claims about the validators, checked under SpecVal.                     *)
(***************************************************************************)
Applied == vOut # NoVerdict

\* C8: every validator accepts every edit that is not an insertion (a
\* deletion or a forced validation), whatever its index, its changed text and
\* the resulting text are.
C8_NonInsertAccepted ==
    (Applied /\ vArgs.why # "1") => \A v \in Validators : vOut[v]

\* a deletion that leaves a text every all-checking validator rejects on insertion
C8_Witness ==
    /\ Applied /\ vArgs.why = "0" /\ vArgs.all = "2023/09/0"
    /\ \A v \in Validators : vOut[v]

\* C10: the date validator accepts an insertion whose resulting text is
\* 2023-09-05, 09/05/2023 or 09/05/23 and rejects one whose resulting text is
\* 2023/09/05.
C10_DateExamples ==
    (Applied /\ vArgs.why = "1") =>
        /\ vArgs.all \in {"2023-09-05", "09/05/2023", "09/05/23"} => vOut["date"]
        /\ vArgs.all = "2023/09/05" => ~vOut["date"]

C10_Witness ==
    Applied /\ vArgs.why = "1" /\ vArgs.all = "09/05/2023" /\ vArgs.what = "2023"
        /\ vOut["date"]

\* The complete values of a date: d stands for one digit
DateForms == {"dddd-dd-dd", "dd/dd/dd", "dd/dd/dddd"}

IsDatePrefix(s) ==
    \E f \in DateForms :
        /\ Len(s) <= Len(f)
        /\ \A i \in 1..Len(s) :
              IF Ch(f, i) = "d" THEN Ch(s, i) \in Digit ELSE Ch(s, i) = Ch(f, i)

\* C11: the date validator accepts an insertion if and only if the resulting
\* text is a prefix of a complete value YYYY-MM-DD, MM/DD/YY or MM/DD/YYYY,
\* the digits being any digits.
C11_DatePrefixIff ==
    (Applied /\ vArgs.why = "1") => (vOut["date"] <=> IsDatePrefix(vArgs.all))

OnlyDigits(s) ==
    Len(s) > 0 /\ \A i \in 1..Len(s) :
                     Ch(s, i) \in {"0", "1", "2", "3", "4", "5", "6", "7", "8", "9"}

\* C13 as stated: the frequency validator accepts every insertion of digits
\* only, whatever the resulting text is.
C13_DigitsAlwaysAccepted ==
    (Applied /\ vArgs.why = "1" /\ OnlyDigits(vArgs.what)) => vOut["frequency"]

\* C13: the frequency validator accepts every insertion of digits only whose
\* resulting text has at most 10 characters, whatever else the resulting text
\* is, and rejects every insertion whose resulting text is longer.
C13_DigitsAcceptedUpTo10 ==
    (Applied /\ vArgs.why = "1") =>
        /\ (OnlyDigits(vArgs.what) /\ Len(vArgs.all) <= 10) => vOut["frequency"]
        /\ Len(vArgs.all) > 10 => ~vOut["frequency"]

\* digits inserted into a text that keeps two dots
C13_Witness ==
    /\ Applied /\ vArgs.why = "1" /\ vArgs.what = "250"
    /\ vArgs.all = "14.250.500" /\ vOut["frequency"]

\* C15: the RST validator accepts an insertion whose resulting text is 599 or
\* -12 and rejects one whose resulting text is 699 or 6.
C15_RstExamples ==
    (Applied /\ vArgs.why = "1") =>
        /\ vArgs.all \in {"599", "-12"} => vOut["rst"]
        /\ vArgs.all \in {"699", "6"} => ~vOut["rst"]

C15_Witness ==
    Applied /\ vArgs.why = "1" /\ vArgs.all = "699" /\ vArgs.what = "6"
        /\ ~vOut["rst"]

\* The text s is a prefix of an RST triple whose first digit is in 1-5, whose
\* second digit is in the set second and whose third digit is in 1-9
IsRstPrefix(s, second) ==
    /\ Len(s) <= 3
    /\ Len(s) >= 1 => Ch(s, 1) \in {"1", "2", "3", "4", "5"}
    /\ Len(s) >= 2 => Ch(s, 2) \in second
    /\ Len(s) >= 3 => Ch(s, 3) \in {"1", "2", "3", "4", "5", "6", "7", "8", "9"}

\* The text s is a sign followed by at most two digits
IsSnr(s) ==
    /\ Len(s) \in 1..3
    /\ Ch(s, 1) \in {"+", "-"}
    /\ \A i \in 2..Len(s) :
          Ch(s, i) \in {"0", "1", "2", "3", "4", "5", "6", "7", "8", "9"}

\* C16 as stated: the signal report validator accepts an insertion only if
\* the resulting text is a prefix of an RST triple with first and second digit
\* in 1-5 and third digit in 1-9, or a sign followed by at most two digits.
C16_RstSecondDigit15 ==
    (Applied /\ vArgs.why = "1" /\ vOut["rst"]) =>
        \/ IsRstPrefix(vArgs.all, {"1", "2", "3", "4", "5"})
        \/ IsSnr(vArgs.all)

\* C16: the signal report validator accepts an insertion only if the
\* resulting text is a prefix of an RST triple with first digit in 1-5 and
\* second and third digit in 1-9, or a sign followed by at most two digits.
C16_RstSecondDigit19 ==
    (Applied /\ vArgs.why = "1" /\ vOut["rst"]) =>
        \/ IsRstPrefix(vArgs.all, {"1", "2", "3", "4", "5", "6", "7", "8", "9"})
        \/ IsSnr(vArgs.all)

\* a strength of 9 typed after a readability of 5
C16_Witness ==
    /\ Applied /\ vArgs.why = "1" /\ vArgs.pre = "5" /\ vArgs.what = "9"
    /\ vArgs.all = "59" /\ vOut["rst"]

\* The text s is an hour of 1-2 digits
IsHour(s) == Len(s) \in 1..2 /\ OnlyDigits(s)

\* The text s is an hour of 1-2 digits, a colon and a minute of 0-2 digits
IsHourColonMinute(s) ==
    \E h \in 1..2 :
        /\ Len(s) \in (h + 1)..(h + 3)
        /\ OnlyDigits(SubSeq(s, 1, h))
        /\ Ch(s, h + 1) = ":"
        /\ Len(s) > h + 1 => OnlyDigits(SubSeq(s, h + 2, Len(s)))

\* The text s is an hour of 1-2 digits followed by a minute of 1-2 digits
IsHourMinuteNoColon(s) ==
    \E h \in 1..2 :
        /\ Len(s) \in (h + 1)..(h + 2)
        /\ OnlyDigits(s)

\* C17 as stated: the time validator accepts an insertion if and only if the
\* resulting text is an hour of 1-2 digits, then a colon or no colon, then a
\* minute of 0-2 digits.
C17_TimeOptionalColon ==
    (Applied /\ vArgs.why = "1") =>
        (vOut["time"] <=> \/ IsHour(vArgs.all)
                          \/ IsHourColonMinute(vArgs.all)
                          \/ IsHourMinuteNoColon(vArgs.all))

\* C17: the time validator accepts an insertion if and only if the resulting
\* text is an hour of 1-2 digits alone, or an hour of 1-2 digits followed by a
\* colon and a minute of 0-2 digits.
C17_TimeColonBeforeMinute ==
    (Applied /\ vArgs.why = "1") =>
        (vOut["time"] <=> IsHour(vArgs.all) \/ IsHourColonMinute(vArgs.all))

\* three digits without a colon
C17_Witness ==
    Applied /\ vArgs.why = "1" /\ vArgs.all = "555" /\ ~vOut["time"]

\* C19: the free text validator rejects an insertion if and only if the
\* inserted text contains a double quote or a backslash, whatever the
\* resulting text is.
C19_TextRejectsQuoteBackslash ==
    (Applied /\ vArgs.why = "1") =>
        (~vOut["text"] <=> \E i \in 1..Len(vArgs.what) :
                               SubSeq(vArgs.what, i, i) \in {"\"", "\\"})

\* a backslash typed after a double quote the field already holds
C19_Witness ==
    /\ Applied /\ vArgs.why = "1" /\ vArgs.pre = "\"" /\ vArgs.what = "\\"
    /\ ~vOut["text"]

(***************************************************************************)
(* Claims about the text entry widget, checked under SpecKey.              *)
(***************************************************************************)
\* C9: for every fixed field, an insertion the field's validator rejects
\* leaves the field's text as it was before the keystroke, and no error is
\* shown.
C9_RejectedInsertNoEffect ==
    /\ ~shown
    /\ (lastEdit.why = "1" /\ ~lastEdit.accept) => wValue = lastEdit.pre

C9_Witness ==
    /\ wField = "QSO_DATE" /\ lastEdit.why = "1" /\ ~lastEdit.accept
    /\ lastEdit.pre = "5" /\ lastEdit.what = ":" /\ wValue = "5"

\* The characters of the string set
CharsOf(set) == {SubSeq(set, i, i) : i \in 1..Len(set)}

\* C14: after any sequence of keystroke edits on the FREQ field starting
\* from empty, the text of the field contains only digits and dots, at most
\* one dot and at most 10 characters.
C14_FreqText ==
    wField = "FREQ" =>
        /\ \A i \in 1..Len(wValue) : Ch(wValue, i) \in CharsOf("0123456789.")
        /\ Cardinality({i \in 1..Len(wValue) : Ch(wValue, i) = "."}) <= 1
        /\ Len(wValue) <= 10

CallAlphabet ==
    CharsOf("ABCDEFGHIJKLMNOPQRSTUVWXYZabcdefghijklmnopqrstuvwxyz0123456789/")

\* C18: after any sequence of keystroke edits on the CALL field starting
\* from empty, the text of the field contains only letters, digits and
\* slashes, and the validator accepts an insertion exactly when the inserted
\* text is not empty and made of letters of either case, digits and slashes.
C18_CallText ==
    wField = "CALL" =>
        /\ \A i \in 1..Len(wValue) : Ch(wValue, i) \in CallAlphabet
        /\ lastEdit.why = "1" =>
              (lastEdit.accept <=>
                  /\ Len(lastEdit.what) > 0
                  /\ \A i \in 1..Len(lastEdit.what) :
                        Ch(lastEdit.what, i) \in CallAlphabet)

\* a slash typed after a lower case letter the field converted to upper case
C18_Witness ==
    /\ wField = "CALL" /\ lastEdit.why = "1" /\ lastEdit.accept
    /\ lastEdit.pre = "A" /\ lastEdit.what = "/" /\ wValue = "A/"

(***************************************************************************)
(* Claims about the QSO entry form, checked under SpecQso.                 *)
(***************************************************************************)
\* The widget w read by the last log action is in the record it built
InRecord(w) ==
    \E j \in 1..Len(qso.fields) :
        qso.fields[j] = <<ToUpper(w.field), FormatAdif(ToUpper(w.field), w.value)>>

\* C20: on a log action, a field is put into the record if and only if both
\* its ADIF name and its formatted value are non-empty.
C20_IncludedIffBothNonEmpty ==
    qso.op = "log" =>
        \A i \in 1..Len(qso.read) :
            LET w == qso.read[i]
            IN  InRecord(w) <=>
                    /\ ToUpper(w.field) # ""
                    /\ FormatAdif(ToUpper(w.field), w.value) # ""

\* a log action on a form whose comment holds a space: the mode is in the
\* record, the comment and the band, which is empty, are not
C20_Witness ==
    /\ qso.op = "log"
    /\ \E i, j, k \in 1..Len(qso.read) :
          /\ qso.read[i].key = "COMMENT" /\ qso.read[i].value = " "
          /\ ~InRecord(qso.read[i])
          /\ qso.read[j].key = "MODE" /\ qso.read[j].value = "SSB"
          /\ InRecord(qso.read[j])
          /\ qso.read[k].key = "BAND" /\ qso.read[k].value = ""
          /\ ~InRecord(qso.read[k])
    /\ qso.record = "<MODE:3>SSB <EOR>"

(***************************************************************************)
(* More claims about LogFile, checked under SpecLog.                       *)
(***************************************************************************)
\* C25: whenever the store file exists, after any sequence of constructor
\* and append calls that began with the file absent, the file begins with
\* the complete header; no record line is in a file that lacks the header.
C25_HeaderFirst ==
    \A p \in Paths :
        fs[p].exists =>
            IsPrefix("ADIF log file created by " \o ProgramName \o "\n<EOH>\n",
                     fs[p].data)

(***************************************************************************)
(* SpecDate: the user types a date, one character at a time at the end of  *)
(* the QSO_DATE field.  The date validator accepts no text longer than a    *)
(* complete date, so the texts are bounded by the validator itself.        *)
(***************************************************************************)
\* The characters the user types into the date field
DateChars == {"0", "5", "-", "/", ":"}

DateInit ==
    /\ LogIdle /\ ValIdle /\ QsoIdle /\ RaceIdle /\ FmtIdle
    /\ wField = "QSO_DATE" /\ wValue = "" /\ lastEdit = NoEdit /\ shown = FALSE

\* The user types the character what at the end of the field
DateType(what) ==
    /\ KeyEdit(InsertEdit(wValue, Len(wValue), what))
    /\ UNCHANGED <<logVars, valVars, qsoVars, raceVars, fmtVars>>

DateNext == \E what \in DateChars : DateType(what)

SpecDate == DateInit /\ [][DateNext]_vars

(***************************************************************************)
(* Claims about typing a date, checked under SpecDate.                     *)
(***************************************************************************)
\* The text s is a complete date YYYY-MM-DD, MM/DD/YY or MM/DD/YYYY
IsCompleteDate(s) == IsDatePrefix(s) /\ Len(s) \in {Len(f) : f \in DateForms}

\* A complete date can be reached from the text s by insertions at the end
\* that the date validator accepts
RECURSIVE CanComplete(_)
CanComplete(s) ==
    \/ IsCompleteDate(s)
    \/ \E c \in DateChars :
          /\ Validate("date", "1", Len(s), c, s \o c)
          /\ CanComplete(s \o c)

\* C27: from every text that accepted single-character insertions at the end
\* of the empty date field reach, a complete date can still be reached by
\* further accepted insertions at the end.
C27_DateNeverStuck == wField = "QSO_DATE" => CanComplete(wValue)

(***************************************************************************)
(* SpecRace: two users of LogFile (two processes) append to one path that  *)
(* starts absent.  One call of append is the steps the operating system    *)
(* can interleave with the other user's: the existence test, the open for  *)
(* writing and the header write of _create, the open for appending and the *)
(* record write.  Every step succeeds.                                     *)
(***************************************************************************)
MaxRaceAppends == 2     \* append calls of one user

Users == {1, 2}

RacePath == "log/simplelog_log.adi"

\* The record user u appends
RaceRecord(u) == AdifRecord(<< <<"CALL", "K" \o ToString(u)>> >>)

\* The data of a handle opened for writing reach the file at the handle's
\* position pos, over what the file holds there
WriteAt(fsv, path, data, pos) ==
    [fsv EXCEPT ![path].data =
        SubSeq(fsv[path].data, 1, pos) \o data
            \o SubSeq(fsv[path].data, pos + Len(data) + 1, Len(fsv[path].data))]

RaceInit ==
    /\ ValIdle /\ KeyIdle /\ QsoIdle /\ FmtIdle
    /\ fs = [p \in Paths |-> NoFile]
    /\ lf = [made |-> TRUE, filename |-> RacePath, ctor |-> "none"]
    /\ last = NoCall
    /\ okRecs = [p \in Paths |-> <<>>]
    /\ nCalls = 0
    /\ pc = [u \in Users |-> [at |-> "idle", n |-> 0]]

Goto(u, at) == pc' = [pc EXCEPT ![u].at = at]

\* if not os.path.isfile(filename)
RaceCheck(u) ==
    /\ pc[u].at = "idle" /\ pc[u].n < MaxRaceAppends
    /\ Goto(u, IF IsFile(fs, RacePath) THEN "open_a" ELSE "open_w")
    /\ UNCHANGED <<fs, okRecs>>

\* _create: open(filename, 'w')
RaceOpenW(u) ==
    /\ pc[u].at = "open_w"
    /\ fs' = OpenW(fs, RacePath)
    /\ Goto(u, "write_hdr")
    /\ UNCHANGED okRecs

\* _create: fd.write(hdr), and the close that ends the with block
RaceWriteHeader(u) ==
    /\ pc[u].at = "write_hdr"
    /\ fs' = WriteAt(fs, RacePath, Header, 0)
    /\ Goto(u, "open_a")
    /\ UNCHANGED okRecs

\* append: open(filename, 'a')
RaceOpenA(u) ==
    /\ pc[u].at = "open_a"
    /\ fs' = OpenA(fs, RacePath)
    /\ Goto(u, "write_rec")
    /\ UNCHANGED okRecs

\* append: fd.write(record + '\n'), the close, status = True
RaceWriteRecord(u) ==
    /\ pc[u].at = "write_rec"
    /\ fs' = WriteK(fs, RacePath, RaceRecord(u) \o "\n", Len(RaceRecord(u)) + 1)
    /\ okRecs' = [okRecs EXCEPT ![RacePath] = Append(@, RaceRecord(u))]
    /\ pc' = [pc EXCEPT ![u] = [at |-> "idle", n |-> pc[u].n + 1]]

RaceNext ==
    /\ \E u \in Users :
          \/ RaceCheck(u)
          \/ RaceOpenW(u)
          \/ RaceWriteHeader(u)
          \/ RaceOpenA(u)
          \/ RaceWriteRecord(u)
    /\ UNCHANGED <<lf, last, nCalls, valVars, keyVars, qsoVars, fmtVars>>

SpecRace == RaceInit /\ [][RaceNext]_vars

(***************************************************************************)
(* Claims about two users of one log file, checked under SpecRace.         *)
(***************************************************************************)
\* C26: when the steps of two users appending to the same initially absent
\* path interleave, no record of an append that returned True is lost or
\* truncated: once no call is in progress the file holds the header once and
\* then the records of the calls that returned True.
C26_NoLostRecord ==
    (\A u \in Users : pc[u].at = "idle") =>
        IF okRecs[RacePath] = <<>>
        THEN ~fs[RacePath].exists
        ELSE fs[RacePath].data =
                 "ADIF log file created by " \o ProgramName \o "\n<EOH>\n"
                     \o Lines(okRecs[RacePath])

(***************************************************************************)
(* SpecFmt: the formatter applied to a field name and a raw value, and     *)
(* again to its own result.                                                *)
(***************************************************************************)
MaxFmtLen == 3      \* length of the raw values

FmtChars == {"5", "a", " "}

\* The field names given to the formatter: the ones it knows, one it does
\* not know, and the empty name
FmtFields == KnownFields \cup {"NOTES", ""}

FmtInit ==
    /\ LogIdle /\ ValIdle /\ KeyIdle /\ QsoIdle /\ RaceIdle
    /\ \E field \in FmtFields, value \in StringsUpTo(FmtChars, MaxFmtLen) :
          fmt = [NoFmt EXCEPT !.field = field, !.value = value]

\* value = format_adif(field, value), twice
FmtApply ==
    /\ ~fmt.done
    /\ fmt' = [fmt EXCEPT !.once = FormatAdif(fmt.field, fmt.value),
                          !.twice = FormatAdif(fmt.field,
                                               FormatAdif(fmt.field, fmt.value)),
                          !.done = TRUE]
    /\ UNCHANGED <<logVars, valVars, keyVars, qsoVars, raceVars>>

FmtNext == FmtApply

SpecFmt == FmtInit /\ [][FmtNext]_vars

EndsWith(s, t) == Len(t) <= Len(s) /\ SubSeq(s, Len(s) - Len(t) + 1, Len(s)) = t

AllEmpty(ws) == \A i \in 1..Len(ws) : ws[i].indict => ws[i].value = ""

\* C21: a log action calls append exactly once, with the record it built,
\* and no exception leaves it; when every field widget is empty the record
\* holds no field, only the terminator, and is still appended; an append
\* that reports success has put the record line at the end of the log file.
C21_LogAppendsOnce ==
    qso.op = "log" =>
        /\ qso.appended = <<qso.record>>
        /\ qso.err = "none"
        /\ AllEmpty(qso.read) => (qso.fields = <<>> /\ qso.record = "<EOR>")
        /\ qso.ok => EndsWith(fs[lf.filename].data, qso.record \o "\n")

\* The log action after clear_qso emptied every widget: the record without
\* fields went to the file.
C21_Witness ==
    /\ qso.op = "log" /\ AllEmpty(qso.read) /\ Len(qso.read) > 0
    /\ qso.appended = <<"<EOR>">> /\ qso.ok
    /\ EndsWith(fs[lf.filename].data, "<EOR>\n")

\* C28: the focus-out handler of FREQ always completes: no exception leaves
\* _set_band, and BAND is as it was, holds a band of the lookup, or is empty.
C28_SetBandCompletes ==
    qso.op = "focusout" =>
        LET b == DictIndex(widgets, "BAND")
        IN  /\ qso.err = "none"
            /\ \/ widgets[b].value = qso.read[b].value
               \/ widgets[b].value = ""
               \/ \E k \in 1..Len(BandList) : widgets[b].value = BandList[k]

(***************************************************************************)
(* SpecForm: the form is constructed on a configuration store.             *)
(***************************************************************************)
MaxSlots == 2       \* number of user-defined fields the store defines

SlotTitles == {"", "T"}
SlotFields == {"", "notes", "call"}
SlotWidths == {"", "0", "10"}
SlotUppers == {"", "1"}

FormSlots ==
    {Slot(t, f, w, u) : t \in SlotTitles, f \in SlotFields, w \in SlotWidths,
                        u \in SlotUppers}

FormConfigs ==
    {[hasNum |-> h, slots |-> s] :
        h \in BOOLEAN, s \in UNION {[1..n -> FormSlots] : n \in 0..MaxSlots}}

FormInit ==
    /\ LogIdle /\ ValIdle /\ KeyIdle /\ RaceIdle /\ FmtIdle
    /\ widgets = <<>> /\ qso = NoQso /\ nEdits = 0
    /\ config \in FormConfigs
    /\ form = "none"

\* WidgetQsoEntry(parent): the exception of init() leaves the constructor
FormConstruct ==
    /\ form = "none"
    /\ config' = FormResult(config).config
    /\ widgets' = IF FormResult(config).err = "none"
                  THEN FormResult(config).widgets ELSE <<>>
    /\ form' = IF FormResult(config).err = "none" THEN "ok"
               ELSE FormResult(config).err
    /\ UNCHANGED <<qso, nEdits, logVars, valVars, keyVars, raceVars, fmtVars>>

FormNext == FormConstruct

SpecForm == FormInit /\ [][FormNext]_vars

\* C30: the construction of the form completes without error for every
\* configuration; a slot without both a title and an ADIF name gets no
\* widget, and the widget of a slot whose width is blank, zero or missing
\* has the default width of a text entry.
C30_UserFieldsInit ==
    form # "none" =>
        /\ form = "ok"
        /\ \A i \in 1..Len(config.slots) :
              LET s == config.slots[i]
                  made == {k \in 1..Len(widgets) : widgets[k].slot = i}
              IN  /\ (Len(s.title) = 0 \/ Len(s.field) = 0) => made = {}
                  /\ ToInt(s.width) = 0 =>
                        \A k \in made : widgets[k].width = TextEntryWidth

(***************************************************************************)
(* SpecUser: the form in use with user-defined fields.  The store defines  *)
(* fields with a width; the log file is missing; the operator has typed a  *)
(* call into the fixed CALL entry.                                         *)
(***************************************************************************)
UserConfigs ==
    { [hasNum |-> TRUE, slots |-> <<Slot("T", "call", "10", "1")>>],
      [hasNum |-> TRUE, slots |-> <<Slot("T", "sig", "10", ""),
                                    Slot("U", "notes", "10", ""),
                                    Slot("V", "notes", "10", "")>>] }

\* The characters the user types, and the names given to set_field
UserChars == {"5"}
UserFieldNames == {"cAll"}

\* The widgets ws after the text v went into the fixed CALL entry
WithCall(ws, v) ==
    [i \in 1..Len(ws) |->
        IF ws[i].key = "CALL" /\ ws[i].slot = 0
        THEN [ws[i] EXCEPT !.value = v] ELSE ws[i]]

UserInit ==
    /\ ValIdle /\ KeyIdle /\ RaceIdle /\ FmtIdle
    /\ config \in UserConfigs /\ form = "ok"
    /\ fs = [p \in Paths |-> NoFile]
    /\ lf = [made |-> TRUE, filename |-> "log/simplelog_log.adi", ctor |-> "none"]
    /\ last = NoCall
    /\ okRecs = [p \in Paths |-> <<>>]
    /\ nCalls = 0
    /\ widgets = WithCall(FormResult(config).widgets, "5")
    /\ qso = NoQso
    /\ nEdits = 0

UserEdit == FormEdit(UserChars, UserFieldNames)

UserNext == UserEdit \/ FormButtons

SpecUser == UserInit /\ [][UserNext]_vars

(***************************************************************************)
(* Claims on the form with user-defined fields, checked under SpecUser.    *)
(***************************************************************************)
\* No set_field has renamed a widget of ws
Unrenamed(ws) == \A i \in 1..Len(ws) : ws[i].field = ws[i].key

\* The place of a fixed field in the stable order of the fixed fields
FixedRank(key) == CHOOSE k \in 1..Len(FormWidgets) : FormWidgets[k].key = key

\* The widget a comes before the widget b in the order of the record: fixed
\* fields in their stable order, then user-defined fields in the order of
\* their slots
Before(a, b) ==
    \/ a.slot = 0 /\ b.slot > 0
    \/ a.slot = 0 /\ b.slot = 0 /\ FixedRank(a.key) < FixedRank(b.key)
    \/ a.slot > 0 /\ b.slot > 0 /\ a.slot < b.slot

\* The widget w of the dictionary gave the field at place j of the record
Gave(w, j) ==
    /\ w.indict
    /\ qso.fields[j] = <<GetField(w), FormatAdif(GetField(w), GetValue(w))>>

\* C22: in the record of a log action the fixed fields come first, in their
\* stable order, and the user-defined fields follow in the order of their
\* slots, whatever the names of the user-defined fields.
C22_FixedThenUser ==
    (qso.op = "log" /\ Unrenamed(qso.read)) =>
        \A i, j \in 1..Len(qso.fields) :
            i < j =>
               \A a, b \in 1..Len(qso.read) :
                  (Gave(qso.read[a], i) /\ Gave(qso.read[b], j)) =>
                      Before(qso.read[a], qso.read[b])

\* C29: every widget the form shows takes part in logging: a log action
\* puts the value of each shown widget with a name and a value into the
\* record, and clear_qso leaves every shown widget empty.
C29_ShownWidgetsTakePart ==
    /\ (qso.op = "log" /\ Unrenamed(qso.read)) =>
          \A i \in 1..Len(qso.read) :
             LET field == GetField(qso.read[i])
                 value == FormatAdif(field, GetValue(qso.read[i]))
             IN  QsoInclude(field, value) =>
                    \E j \in 1..Len(qso.fields) : qso.fields[j] = <<field, value>>
    /\ qso.op = "clear" => \A i \in 1..Len(widgets) : widgets[i].value = ""

IsUpperCase(s) == \A i \in 1..Len(s) : Ch(s, i) \notin Lower

====
